---- MODULE Spec2Model ----
(***************************************************************************)
(* A model of userexit.py: the UserExit / UserAbort exception classes, the *)
(* class statements that derive new exit classes from them (demo.py,       *)
(* test_userexit.py), instantiation, the message rendering of __str__ and  *)
(* the UserExit.handle decorator.                                          *)
(*                                                                         *)
(* userexit.py defines no metaclass and no pool of exit statuses: a class  *)
(* statement only creates a class whose attributes are the ones its body   *)
(* assigns, and every other attribute is found by Python's attribute       *)
(* lookup along the class's method resolution order (C3 linearisation).    *)
(***************************************************************************)
EXTENDS Integers, Sequences, FiniteSets, Bags, TLC

\* ---------------------------------------------------------------- bounds
MaxClasses == 3       \* class statements executed under SpecDecl
MaxRunClasses == 1    \* class statements executed under Spec
MaxBases == 2         \* longest list of base classes of a class statement
MaxInstances == 2     \* exception instances alive at once
MaxArgs == 1          \* most positional arguments given to a constructor

\* ------------------------------------------------------------- the state
VARIABLES
    classes,      \* the classes that exist, in order of creation
    instances,    \* the exception instances that exist (a bag)
    call          \* the last call of a function wrapped by UserExit.handle

vars == <<classes, instances, call>>

\* Positions of the classes that exist before any class statement of a
\* program runs.  Exception stands for the builtin base of UserExit; its own
\* bases (BaseException, object) define none of the attributes read here.
ExceptionCls == 1
UserExit == 2
UserAbort == 3

\* The values class bodies assign to exit_status in the tests, and the
\* number of positional replacement fields of the messages they assign.
ExplicitStatuses == {80, 127}
DeclStatuses == {80}
MessageFields == {1}
ReturnValues == {"None", "value"}

\* An optional assignment in a class body: <<>> (absent) or <<v>>.
Opt(S) == {<<>>} \cup {<<v>> : v \in S}

\* ------------------------------------------------- classes and attributes
ExceptionDict == <<>>

UserExitDict ==
    [exit_status |-> 0, message |-> 0, prefix_name |-> TRUE, prefix_error |-> TRUE]

UserAbortDict ==
    [exit_status |-> 1, message |-> 0, prefix_error |-> FALSE]

BuiltinBody(dict) ==
    [st |-> IF "exit_status" \in DOMAIN dict THEN <<dict.exit_status>> ELSE <<>>,
     msg |-> IF "message" \in DOMAIN dict THEN <<dict.message>> ELSE <<>>]

BuiltinClasses ==
    << [bases |-> <<>>, body |-> BuiltinBody(ExceptionDict),
        dict |-> ExceptionDict, mro |-> <<ExceptionCls>>],
       [bases |-> <<ExceptionCls>>, body |-> BuiltinBody(UserExitDict),
        dict |-> UserExitDict, mro |-> <<UserExit, ExceptionCls>>],
       [bases |-> <<UserExit>>, body |-> BuiltinBody(UserAbortDict),
        dict |-> UserAbortDict, mro |-> <<UserAbort, UserExit, ExceptionCls>>] >>

Range(s) == {s[i] : i \in DOMAIN s}

InTail(x, s) == \E i \in 2..Len(s) : s[i] = x

Min(S) == CHOOSE x \in S : \A y \in S : x <= y

\* The merge step of the C3 linearisation: take the first head that is in
\* the tail of no list, drop it from every list, repeat; fail when no head
\* qualifies.
RECURSIVE Merge(_)
Merge(seqs) ==
    LET live == SelectSeq(seqs, LAMBDA s : s # <<>>)
    IN  IF live = <<>> THEN [ok |-> TRUE, mro |-> <<>>]
        ELSE
          LET cands == {i \in 1..Len(live) :
                          \A j \in 1..Len(live) : ~InTail(Head(live[i]), live[j])}
          IN  IF cands = {} THEN [ok |-> FALSE, mro |-> <<>>]
              ELSE
                LET h == Head(live[Min(cands)])
                    rest == Merge([k \in 1..Len(live) |->
                                     IF Head(live[k]) = h THEN Tail(live[k])
                                     ELSE live[k]])
                IN  [ok |-> rest.ok,
                     mro |-> IF rest.ok THEN <<h>> \o rest.mro ELSE <<>>]

\* s without the later occurrences of its repeated entries.
RECURSIVE DedupFirst(_)
DedupFirst(s) ==
    IF s = <<>> THEN <<>>
    ELSE LET front == DedupFirst(SubSeq(s, 1, Len(s) - 1))
         IN  IF s[Len(s)] \in Range(front) THEN front
             ELSE Append(front, s[Len(s)])

RECURSIVE Concat(_)
Concat(seqs) == IF seqs = <<>> THEN <<>> ELSE Head(seqs) \o Concat(Tail(seqs))

\* A resolution order that walks the bases depth first, left to right.
ComputeMroMut(n, bases) ==
    [ok |-> TRUE,
     mro |-> <<n>> \o DedupFirst(Concat([i \in 1..Len(bases) |->
                                            classes[bases[i]].mro]))]

\* The method resolution order of a new class, number n, with these bases;
\* a class statement raises TypeError for a repeated base and for bases
\* that have no consistent order.
ComputeMro(n, bases) ==
    IF Cardinality(Range(bases)) # Len(bases)
    THEN [ok |-> FALSE, mro |-> <<>>]
    ELSE LET m == Merge([i \in 1..Len(bases) |-> classes[bases[i]].mro]
                        \o <<bases>>)
         IN  [ok |-> m.ok, mro |-> IF m.ok THEN <<n>> \o m.mro ELSE <<>>]

\* A class creation that left the body's exit_status out of the class.
BodyDictMut(st, msg) ==
    [a \in (IF msg # <<>> THEN {"message"} ELSE {}) |-> msg[1]]

\* The attributes a class body assigns.
BodyDict(st, msg) ==
    [a \in (IF st # <<>> THEN {"exit_status"} ELSE {})
           \cup (IF msg # <<>> THEN {"message"} ELSE {})
       |-> IF a = "exit_status" THEN st[1] ELSE msg[1]]

\* Attribute lookup on a class: the first class of its method resolution
\* order whose own dict has the attribute.
Definers(c, attr) ==
    {i \in 1..Len(classes[c].mro) : attr \in DOMAIN classes[classes[c].mro[i]].dict}

HasAttr(c, attr) == Definers(c, attr) # {}

ClassAttr(c, attr) ==
    classes[classes[c].mro[Min(Definers(c, attr))]].dict[attr]

IsSubclass(c, base) == base \in Range(classes[c].mro)

\* ----------------------------------------------------- the class statement
\* The class a class statement creates: body is what the statement's body
\* assigns (exit_status, message), dict the class's own attributes.
NewClass(bases, st, msg, mro) ==
    [bases |-> bases, body |-> [st |-> st, msg |-> msg],
     dict |-> BodyDict(st, msg), mro |-> mro]

\* A class statement that assigned the body's attributes to its first base.
ClassesAfterMut(bases, st, msg, mro) ==
    Append([classes EXCEPT ![bases[1]].dict = BodyDict(st, msg) @@ @],
           NewClass(bases, st, msg, mro))

ClassesAfter(bases, st, msg, mro) ==
    Append(classes, NewClass(bases, st, msg, mro))

\* The base lists of a class statement: one or more of the exit classes,
\* UserExit included.
BaseLists ==
    UNION {[1..n -> UserExit..Len(classes)] : n \in 1..MaxBases}

\* A class statement raises TypeError, and creates nothing, exactly when
\* its bases have no method resolution order; the body's assignments are
\* not looked at.
CanDeclare(bases, st, msg) == ComputeMro(Len(classes) + 1, bases).ok

Declare(bases, st, msg) ==
    /\ CanDeclare(bases, st, msg)
    /\ classes' = ClassesAfter(bases, st, msg,
                                ComputeMro(Len(classes) + 1, bases).mro)
    /\ UNCHANGED <<instances, call>>

DeclareUpTo(bound, sts, msgs) ==
    /\ Len(classes) < Len(BuiltinClasses) + bound
    /\ \E bases \in BaseLists, st \in sts, msg \in msgs :
          Declare(bases, st, msg)

\* ------------------------------------------------------------ instances
\* An instantiation that computed a status of the instance's own.
NewInstanceMut(c, n) == [cls |-> c, nargs |-> n, dict |-> [exit_status |-> n]]

\* UserExit defines no __init__ and no __new__: BaseException's stores the
\* positional arguments and leaves the instance's own dict empty.
NewInstance(c, n) == [cls |-> c, nargs |-> n, dict |-> <<>>]

\* Attribute lookup on an instance: its own dict, then its class.
InstHasAttr(inst, attr) == attr \in DOMAIN inst.dict \/ HasAttr(inst.cls, attr)

InstAttr(inst, attr) ==
    IF attr \in DOMAIN inst.dict THEN inst.dict[attr] ELSE ClassAttr(inst.cls, attr)

Instantiate(c, n) ==
    /\ BagCardinality(instances) < MaxInstances
    /\ instances' = instances (+) SetToBag({NewInstance(c, n)})
    /\ UNCHANGED <<classes, call>>

\* ---------------------------------------------------------------- __str__
\* The class whose body holds the message template an instance renders.
TemplateOf(inst) == classes[inst.cls].mro[Min(Definers(inst.cls, "message"))]

\* str(ex): the name prefix, the error prefix, the template filled with the
\* positional arguments.  str.format raises IndexError when the template
\* has more positional fields than the instance has arguments.
Str(inst) ==
    IF InstAttr(inst, "message") > inst.nargs
    THEN [ok |-> FALSE,
          text |-> [name |-> FALSE, error |-> FALSE, template |-> 0, nargs |-> 0]]
    ELSE [ok |-> TRUE,
          text |-> [name |-> InstAttr(inst, "prefix_name"),
                    error |-> InstAttr(inst, "prefix_error")
                              /\ InstAttr(inst, "exit_status") # 0,
                    template |-> TemplateOf(inst),
                    nargs |-> inst.nargs]]

\* ------------------------------------------------------- UserExit.handle
\* except Exception as ex
CatchesMut(inst) == IsSubclass(inst.cls, ExceptionCls)

\* except UserExit as ex
Catches(inst) == IsSubclass(inst.cls, UserExit)

\* What one call of inner does, given how the wrapped function ended:
\* events are the statements of the except block that ran, out is what
\* print wrote to sys.stdout, result is how inner itself ended.
Inner(fn) ==
    IF fn.kind = "return"
    THEN [events |-> <<>>, out |-> <<>>, result |-> [kind |-> "return", val |-> "None"]]
    ELSE IF ~Catches(fn.exc)
    THEN [events |-> <<>>, out |-> <<>>, result |-> [kind |-> "propagate", exc |-> fn.exc]]
    ELSE IF ~InstHasAttr(fn.exc, "message")
    THEN [events |-> <<>>, out |-> <<>>, result |-> [kind |-> "AttributeError"]]
    ELSE IF ~Str(fn.exc).ok
    THEN [events |-> <<>>, out |-> <<>>, result |-> [kind |-> "IndexError"]]
    ELSE [events |-> <<"print", "SystemExit">>,
          out |-> <<Str(fn.exc).text>>,
          result |-> [kind |-> "SystemExit", code |-> InstAttr(fn.exc, "exit_status")]]

CallRecord(fn) ==
    [fn |-> fn, events |-> Inner(fn).events, out |-> Inner(fn).out,
     result |-> Inner(fn).result]

\* The wrapped function returns v.
CallReturns(v) ==
    /\ call' = CallRecord([kind |-> "return", val |-> v])
    /\ UNCHANGED <<classes, instances>>

\* The wrapped function raises a new instance of class c made with n
\* positional arguments.
CallRaises(c, n) ==
    /\ call' = CallRecord([kind |-> "raise", exc |-> NewInstance(c, n)])
    /\ UNCHANGED <<classes, instances>>

\* ---------------------------------------------------------------- Init
Init ==
    /\ classes = BuiltinClasses
    /\ instances = EmptyBag
    /\ call = [fn |-> [kind |-> "none"], events |-> <<>>, out |-> <<>>,
               result |-> [kind |-> "none"]]

NextDecl == DeclareUpTo(MaxClasses, Opt(DeclStatuses), {<<>>})

SpecDecl == Init /\ [][NextDecl]_vars

NextInst ==
    \/ DeclareUpTo(MaxRunClasses, Opt(ExplicitStatuses), {<<>>})
    \/ \E c \in 1..Len(classes), n \in 0..MaxArgs : Instantiate(c, n)

SpecInst == Init /\ [][NextInst]_vars

Next ==
    \/ DeclareUpTo(MaxRunClasses, Opt(ExplicitStatuses), Opt(MessageFields))
    \/ \E v \in ReturnValues : CallReturns(v)
    \/ \E c \in 1..Len(classes), n \in 0..MaxArgs : CallRaises(c, n)

Spec == Init /\ [][Next]_vars

\* ------------------------------------------------------------ the claims
\* The classes created by class statements.
Declared == (Len(BuiltinClasses) + 1)..Len(classes)

\* cls.exit_status
Status(c) == ClassAttr(c, "exit_status")

\* The class whose own exit_status c has.
StatusOwner(c) == classes[c].mro[Min(Definers(c, "exit_status"))]

\* The class statement's body assigns exit_status.
Explicit(c) == classes[c].body.st # <<>>

\* The class statement lists UserAbort among its bases and assigns no
\* exit_status.
AbortListed(c) == ~Explicit(c) /\ UserAbort \in Range(classes[c].bases)

\* The class statement assigns no exit_status and does not list UserAbort.
Inherits(c) == ~Explicit(c) /\ UserAbort \notin Range(classes[c].bases)

\* C1: every class declared with UserAbort among its bases and no explicit
\* exit_status has an exit_status that is neither 0 nor 1 and that no other
\* such class shares.
C1_AutoStatusUnique ==
    \A c \in Declared :
        AbortListed(c) =>
            /\ Status(c) \notin {0, 1}
            /\ \A d \in Declared \ {c} : AbortListed(d) => Status(d) # Status(c)

C5_ExplicitStatusSkipped ==
    \A c \in Declared, d \in Declared :
        (c < d /\ Explicit(c) /\ AbortListed(d)) =>
            Status(d) # classes[c].body.st[1]

\* C6: a class declared without explicit exit_status whose bases list
\* UserAbort together with a declared class P has an exit_status that
\* differs from P's and from that of every class that existed before it.
C6_FreshStatusBesideAbort ==
    \A d \in Declared :
        (AbortListed(d) /\ \E p \in Range(classes[d].bases) : p \in Declared) =>
            /\ \A p \in Range(classes[d].bases) \cap Declared : Status(d) # Status(p)
            /\ \A e \in UserExit..(d - 1) : Status(d) # Status(e)

\* C7: an instantiation changes no class, hence no class's exit_status, and
\* every instance of an exit class has the exit_status of its class.
C7_InstantiationKeepsStatus ==
    /\ [][instances' # instances => classes' = classes]_vars
    /\ [](\A inst \in BagToSet(instances) :
              HasAttr(inst.cls, "exit_status") =>
                  InstAttr(inst, "exit_status") = Status(inst.cls))

\* A declared class with status 80 instantiated twice with the same
\* arguments.
C7_Witness ==
    \E inst \in BagToSet(instances) :
        /\ inst.cls \in Declared
        /\ Status(inst.cls) = 80
        /\ CopiesIn(inst, instances) = 2
        /\ InstAttr(inst, "exit_status") = 80

\* C8: whenever the wrapped function raises an instance of UserExit or of a
\* class derived from it, inner prints the formatted message exactly once
\* and then raises SystemExit exactly once, with the class's exit_status.
C8_CaughtPrintsAndExits ==
    (call.fn.kind = "raise" /\ IsSubclass(call.fn.exc.cls, UserExit)) =>
        /\ call.events = <<"print", "SystemExit">>
        /\ Len(call.out) = 1
        /\ call.result.kind = "SystemExit"
        /\ call.result.code = Status(call.fn.exc.cls)

\* C9: whenever the wrapped function raises an instance of a class that is
\* not derived from UserExit, inner lets that same exception through, prints
\* nothing and raises no SystemExit.
C9_OtherFailuresPropagate ==
    (call.fn.kind = "raise" /\ ~IsSubclass(call.fn.exc.cls, UserExit)) =>
        /\ call.result.kind = "propagate"
        /\ call.result.exc = call.fn.exc
        /\ call.events = <<>>
        /\ call.out = <<>>

\* The wrapped function raised an Exception, which came through.
C9_Witness ==
    /\ call.fn.kind = "raise"
    /\ call.fn.exc.cls = ExceptionCls
    /\ call.result.kind = "propagate"
    /\ Len(classes) > Len(BuiltinClasses)

\* C10: whenever the wrapped function returns v, inner returns v, prints
\* nothing and raises no SystemExit.
C10_ReturnValueKept ==
    call.fn.kind = "return" =>
        /\ call.result.kind = "return"
        /\ call.result.val = call.fn.val
        /\ call.events = <<>>
        /\ call.out = <<>>

====
